---- MODULE Spec2Model ----
(***************************************************************************)
(* Model of pony.migrate: the command front end (command.py) and the value *)
(* serializer (serializer.py).                                             *)
(*                                                                         *)
(* Spec    : the command front end.  One process, a process-wide cleanup   *)
(*           stack, a migration directory, and one call of migrate(),      *)
(*           show_migrations() or merge().                                 *)
(* SpecSer : the serializer as a pure function, applied to values drawn    *)
(*           from a bounded universe.                                      *)
(***************************************************************************)
EXTENDS Integers, Sequences, FiniteSets, TLC

VARIABLES
    graph,       \* migration directory as the loader reads it: node -> set of deps
    extras,      \* TRUE when the directory also holds an entry that is no .py file
    stack,       \* cmd_exitstack: registered exit callbacks, oldest first
    pushed,      \* history: every callback registered since the stack last unwound
    ran,         \* history: callbacks run by the last unwinding, in run order
    pc,          \* "idle" | "dispatch" | "exit" | "done" | "cli_done"
    entry,       \* which entry point is running: "migrate" | "merge" | "show_migrations"
    opts,        \* the parsed options migrate() was called with
    result,      \* "ok", or the name of the exception that propagates
    asked,       \* answers the operator gave to ask_merge during the call, in order
    written,     \* migration files written by merge() during the call
    output,      \* lines printed during the call
    applyCalls,  \* calls of Migration.apply made during the call
    named,       \* the files the propagating error message names
    listing,     \* what the last listing read: leaf count, plan, tracking rows
    sys_argv,    \* sys.argv, the argument vector of the process
    cli,         \* the running call of cli(db, argv), if any
    sval,        \* serializer: the value handed to serializer_factory
    sctx,        \* serializer: the context mapping handed to serializer_factory
    sout         \* serializer: what the call produced

cliVars == <<graph, extras, stack, pushed, ran, pc, entry, opts, result, asked,
             written, output, applyCalls, named, listing, sys_argv, cli>>
serVars == <<sval, sctx, sout>>
vars == <<graph, extras, stack, pushed, ran, pc, entry, opts, result, asked,
          written, output, applyCalls, named, listing, sys_argv, cli, sval, sctx, sout>>

(***************************************************************************)
(* Bounds                                                                  *)
(***************************************************************************)
MaxMigrations == 3
MaxTime == 2
MaxTokenLen == 1

(***************************************************************************)
(* Generic helpers                                                         *)
(***************************************************************************)
Range(s) == {s[i] : i \in 1..Len(s)}

Reverse(s) == [i \in 1..Len(s) |-> s[Len(s) + 1 - i]]

SetMax(S) == CHOOSE x \in S : \A y \in S : y <= x

Perms(S) == {p \in [1..Cardinality(S) -> S] : \A i, j \in 1..Cardinality(S) : p[i] = p[j] => i = j}

IsPrefix(p, s) == Len(p) <= Len(s) /\ SubSeq(s, 1, Len(p)) = p

\* s[-n:] and s[:-n] of Python
LastN(s, n) == IF Len(s) <= n THEN s ELSE SubSeq(s, Len(s) - n + 1, Len(s))
DropLastN(s, n) == IF Len(s) <= n THEN <<>> ELSE SubSeq(s, 1, Len(s) - n)

None == <<>>

Truthy(s) == s # None

(***************************************************************************)
(* The migration directory and the dependency graph read from it           *)
(***************************************************************************)
Alphabet == <<"a", "b", "c", "d", "e", "f">>
TokenChars == {"a", "b"}
PyExt == <<".", "p", "y">>

\* file name stem of migration n: 1 -> a, 2 -> ab, 3 -> b, 4 -> bc, 5 -> c ...
Stem(n) ==
    IF n % 2 = 1 THEN <<Alphabet[(n + 1) \div 2]>>
    ELSE <<Alphabet[n \div 2], Alphabet[n \div 2 + 1]>>

\* a directory entry that is not a migration module (a cache directory, a note)
ExtraEntry == <<"b", "b">>

get_migration_dir(g, ex) ==
    {Stem(n) \o PyExt : n \in DOMAIN g} \cup (IF ex THEN {ExtraEntry} ELSE {})

Graphs ==
    UNION {[1..n -> SUBSET (1..MaxMigrations)] : n \in 0..MaxMigrations}

IsGraph(g) == \A n \in DOMAIN g : \A d \in g[n] : d < n

leaf_nodes(g) == {n \in DOMAIN g : \A m \in DOMAIN g : n \notin g[m]}

RECURSIVE Ancestors(_, _)
Ancestors(g, n) == {n} \cup UNION {Ancestors(g, d) : d \in g[n]}

\* every order of the leaf's history that respects the dependency edges
forwards_plans(g, leaf) ==
    {p \in Perms(Ancestors(g, leaf)) :
        \A i, j \in 1..Len(p) : p[j] \in g[p[i]] => j < i}

_generate_name(g) == SetMax(DOMAIN g \cup {0}) + 1

Tokens == UNION {[1..n -> TokenChars] : n \in 1..MaxTokenLen}

(***************************************************************************)
(* Effects of one handler call, returned to the action that applies them   *)
(***************************************************************************)
Msg(text) == [mark |-> text, name |-> 0]

NoListing == [leaves |-> 0, fail_fast |-> FALSE, reached |-> FALSE, plan |-> <<>>,
              rows |-> {}, saved |-> <<>>]

Eff(res, ask, push, wr, g, out, lst) ==
    [result |-> res, asked |-> ask, push |-> push, written |-> wr,
     graph |-> g, output |-> out, listing |-> lst]

AddNode(g, name, deps) ==
    [n \in DOMAIN g \cup {name} |-> IF n = name THEN deps ELSE g[n]]

(***************************************************************************)
(* find_migration: glob the directory for <token>*, disambiguate           *)
(***************************************************************************)
glob(token, d) == {f \in d : IsPrefix(token, f)}

find_migration_drop_multiple_check(name, d) ==
    LET files == glob(name, d) IN
    IF files = {} THEN [exc |-> "No files", value |-> None, files |-> files]
    ELSE LET p == CHOOSE f \in files : TRUE IN
         IF LastN(p, 3) # PyExt
         THEN [exc |-> "AssertionError", value |-> None, files |-> files]
         ELSE [exc |-> "None", value |-> DropLastN(p, 3), files |-> files]

find_migration(name, d) ==
    LET files == glob(name, d) IN
    IF Cardinality(files) > 1
    THEN [exc |-> "Multiple files found", value |-> None, files |-> files]
    ELSE IF files = {}
    THEN [exc |-> "No files", value |-> None, files |-> files]
    ELSE LET p == CHOOSE f \in files : TRUE IN
         IF LastN(p, 3) # PyExt
         THEN [exc |-> "AssertionError", value |-> None, files |-> files]
         ELSE [exc |-> "None", value |-> DropLastN(p, 3), files |-> files]

(***************************************************************************)
(* merge                                                                   *)
(***************************************************************************)
merge_ignore_answer(db, loader, leaves, g, ans) ==
    LET lv == IF loader = "None" THEN leaf_nodes(g) ELSE leaves IN
    IF Cardinality(lv) <= 1
    THEN Eff("ok", <<>>, <<>>, <<>>, g, <<Msg("Nothing to merge.")>>, NoListing)
    ELSE IF db = "None"
    THEN Eff("AttributeError", <<ans[1]>>, <<>>, <<>>, g, <<>>, NoListing)
    ELSE LET name == _generate_name(g) IN
         Eff("ok", <<ans[1]>>, <<"disconnect">>, <<[name |-> name, deps |-> lv]>>,
             AddNode(g, name, lv), <<>>, NoListing)

merge(db, loader, leaves, g, ans) ==
    LET lv == IF loader = "None" THEN leaf_nodes(g) ELSE leaves IN
    IF Cardinality(lv) <= 1
    THEN Eff("ok", <<>>, <<>>, <<>>, g, <<Msg("Nothing to merge.")>>, NoListing)
    ELSE IF ~ans[1]
    THEN Eff("MergeAborted", <<ans[1]>>, <<>>, <<>>, g, <<>>, NoListing)
    ELSE IF db = "None"   \* db.disconnect on None, before anything is registered
    THEN Eff("AttributeError", <<ans[1]>>, <<>>, <<>>, g, <<>>, NoListing)
    ELSE LET name == _generate_name(g) IN
         Eff("ok", <<ans[1]>>, <<"disconnect">>, <<[name |-> name, deps |-> lv]>>,
             AddNode(g, name, lv), <<>>, NoListing)

(***************************************************************************)
(* show_migrations                                                         *)
(***************************************************************************)
\* the tracking-table query: rows whose name is in the plan, by applied time
select_saved(rows, names) ==
    LET hit == {r \in rows : r.name \in Range(names)} IN
    {[i \in 1..Cardinality(hit) |-> p[i].name] :
        p \in {q \in Perms(hit) : \A i, j \in 1..Cardinality(hit) :
                                      i < j => q[i].applied <= q[j].applied}}

print_listing_no_skip(saved, names) ==
    [i \in 1..Len(saved) |-> [mark |-> "+", name |-> saved[i]]]
    \o [i \in 1..Len(names) |-> [mark |-> " ", name |-> names[i]]]

print_listing(saved, names) ==
    LET IsUnsaved(n) == n \notin Range(saved) IN
    LET rest == SelectSeq(names, IsUnsaved) IN
    [i \in 1..Len(saved) |-> [mark |-> "+", name |-> saved[i]]]
    \o [i \in 1..Len(rest) |-> [mark |-> " ", name |-> rest[i]]]

show_migrations(db, fail_fast, g, inp) ==
    IF db = "None"
    THEN Eff("AttributeError", <<>>, <<>>, <<>>, g, <<>>, NoListing)
    ELSE
    LET leaves == leaf_nodes(g)
        reg == <<"disconnect">>
        seen == [NoListing EXCEPT !.leaves = Cardinality(leaves), !.fail_fast = fail_fast]
    IN
    IF leaves = {}
    THEN Eff("ok", <<>>, reg, <<>>, g, <<Msg("No migrations")>>, seen)
    ELSE IF Cardinality(leaves) > 1 /\ ~fail_fast
    THEN IF inp.ans[1]
         THEN LET m == merge("None", "given", leaves, g, Tail(inp.ans)) IN
              IF m.result # "ok"
              THEN Eff(m.result, <<inp.ans[1]>> \o m.asked, reg \o m.push,
                       m.written, m.graph, m.output, seen)
              ELSE \* show_migrations(fail_fast=True): the db argument is missing
                   Eff("TypeError", <<inp.ans[1]>> \o m.asked, reg \o m.push,
                       m.written, m.graph, m.output, seen)
         ELSE Eff("ok", <<inp.ans[1]>>, reg, <<>>, g, <<>>, seen)
    ELSE
    LET names == inp.names IN    \* forwards_plan(leaves[0])
    IF ~inp.exists
    THEN Eff("ok", <<>>, reg, <<>>, g,
             <<Msg("No Migration table. Please apply the initial migration.")>>,
             [seen EXCEPT !.plan = names])
    ELSE Eff("ok", <<>>, reg, <<>>, g, print_listing(inp.saved, names),
             [seen EXCEPT !.reached = TRUE, !.plan = names, !.rows = inp.rows,
                          !.saved = inp.saved])

(***************************************************************************)
(* migrate: option handling and dispatch                                   *)
(***************************************************************************)
NoOpts == [make |-> FALSE, apply |-> FALSE, sql |-> FALSE, list |-> FALSE,
           start |-> None, end |-> None, name |-> None,
           fake |-> FALSE, dry |-> FALSE]

\* what the documented grammar can produce: at most one subcommand is set
OptsSet ==
    {[NoOpts EXCEPT !.fake = f] : f \in BOOLEAN}
    \cup {[NoOpts EXCEPT !.make = TRUE, !.name = n] : n \in Tokens \cup {None}}
    \cup {[NoOpts EXCEPT !.apply = TRUE, !.start = s, !.end = e, !.fake = f, !.dry = d] :
            s \in Tokens \cup {None}, e \in Tokens \cup {None},
            f \in BOOLEAN, d \in BOOLEAN}
    \cup {[NoOpts EXCEPT !.sql = TRUE, !.name = n] : n \in Tokens}
    \cup {[NoOpts EXCEPT !.list = TRUE]}

\* for cmd in ('make', 'apply', 'sql', 'list'): if opts.get(cmd): break
cmd(o) ==
    IF o.make THEN "make"
    ELSE IF o.apply THEN "apply"
    ELSE IF o.sql THEN "sql"
    ELSE IF o.list THEN "list"
    ELSE "None"

ApplyCall(kw, start, end, exact, fake, dry) ==
    [kw |-> kw, name_start |-> start, name_end |-> end, name_exact |-> exact,
     is_fake |-> fake, dry_run |-> dry]

\* a failed lookup propagates out of migrate; 'Multiple files found' names the files
Raised(e) ==
    [result |-> e.exc, calls |-> <<>>,
     named |-> IF e.exc = "Multiple files found" THEN e.files ELSE {}]

Called(c) == [result |-> "ok", calls |-> <<c>>, named |-> {}]

\* the apply branch: the exception that propagates, or the Migration.apply call
migrate_apply(o, d) ==
    IF Truthy(o.start) /\ ~Truthy(o.end)
    THEN LET e == find_migration(o.start, d) IN
         IF e.exc # "None" THEN Raised(e)
         ELSE Called(ApplyCall({"name_end", "name_start"}, None, e.value, None,
                               o.fake, o.dry))
    ELSE IF Truthy(o.start) /\ Truthy(o.end)
    THEN LET s == find_migration(o.start, d) IN
         IF s.exc # "None" THEN Raised(s)
         ELSE LET e == find_migration(o.end, d) IN
              IF e.exc # "None" THEN Raised(e)
              ELSE Called(ApplyCall({"name_start", "name_end"}, s.value, e.value,
                                    None, o.fake, o.dry))
    ELSE Called(ApplyCall({}, None, None, None, o.fake, o.dry))

migrate_sql(o, d) ==
    LET n == find_migration(o.name, d) IN
    IF n.exc # "None" THEN Raised(n)
    ELSE Called(ApplyCall({"name_exact"}, None, None, n.value, FALSE, TRUE))

\* "with cmd_exitstack:" - where control goes when the block is left
with_exit_skipped_on_error(res) == IF res = "ok" THEN "exit" ELSE "done"

with_exit(res) == "exit"

\* ExitStack.__exit__: the order in which the registered callbacks run
close(st) == Reverse(st)

(***************************************************************************)
(* Inputs of a listing: operator answers, loader order, tracking table     *)
(***************************************************************************)
Answers == [1..2 -> BOOLEAN]

Tables ==
    UNION {{{[name |-> n, applied |-> f[n]] : n \in S} : f \in [S -> 1..MaxTime]} :
              S \in SUBSET (1..MaxMigrations)}

ListingInputs(g, fail_fast) ==
    LET leaves == leaf_nodes(g) IN
    IF leaves = {} \/ (Cardinality(leaves) > 1 /\ ~fail_fast)
    THEN {[ans |-> a, names |-> <<>>, exists |-> TRUE, rows |-> {}, saved |-> <<>>] :
             a \in Answers}
    ELSE UNION {UNION {
            {[ans |-> <<FALSE, FALSE>>, names |-> p, exists |-> FALSE, rows |-> {},
              saved |-> <<>>]}
            \cup UNION {{[ans |-> <<FALSE, FALSE>>, names |-> p, exists |-> TRUE,
                          rows |-> t, saved |-> sv] : sv \in select_saved(t, p)} :
                            t \in Tables}
            : p \in forwards_plans(g, first)} : first \in leaves}

(***************************************************************************)
(* Actions                                                                 *)
(***************************************************************************)
Apply(e) ==
    /\ result' = e.result
    /\ asked' = e.asked
    /\ written' = e.written
    /\ output' = e.output
    /\ listing' = e.listing
    /\ graph' = e.graph
    /\ stack' = stack \o e.push
    /\ pushed' = pushed \o e.push

MigrateEnter ==
    /\ pc = "idle"
    /\ \E o \in OptsSet, debug \in BOOLEAN :
         /\ opts' = o
         /\ stack' = IF debug THEN Append(stack, "drop_into_debugger") ELSE stack
         /\ pushed' = IF debug THEN Append(pushed, "drop_into_debugger") ELSE pushed
    /\ pc' = "dispatch"
    /\ entry' = "migrate"
    /\ UNCHANGED <<graph, extras, ran, result, asked, written, output, applyCalls,
                   named, listing, sval, sctx, sout,
                   sys_argv, cli>>

DispatchMake ==
    /\ pc = "dispatch" /\ cmd(opts) = "make"
    /\ result' = "ok"          \* Migration.make(...) is outside this code
    /\ pc' = with_exit("ok")
    /\ UNCHANGED <<graph, extras, stack, pushed, ran, entry, opts, asked, written,
                   output, applyCalls, named, listing, sval, sctx, sout,
                   sys_argv, cli>>

DispatchList ==
    /\ pc = "dispatch" /\ cmd(opts) = "list"
    /\ \E inp \in ListingInputs(graph, FALSE) :
         LET e == show_migrations("db", FALSE, graph, inp) IN
         /\ Apply(e)
         /\ pc' = with_exit(e.result)
    /\ UNCHANGED <<extras, ran, entry, opts, applyCalls, named, sval, sctx, sout,
                   sys_argv, cli>>

DispatchApply ==
    /\ pc = "dispatch" /\ cmd(opts) = "apply"
    /\ LET r == migrate_apply(opts, get_migration_dir(graph, extras)) IN
         /\ result' = r.result
         /\ applyCalls' = r.calls
         /\ named' = r.named
         /\ pc' = with_exit(r.result)
    /\ UNCHANGED <<graph, extras, stack, pushed, ran, entry, opts, asked, written,
                   output, listing, sval, sctx, sout,
                   sys_argv, cli>>

DispatchSql ==
    /\ pc = "dispatch" /\ cmd(opts) = "sql"
    /\ LET r == migrate_sql(opts, get_migration_dir(graph, extras)) IN
         /\ result' = r.result
         /\ applyCalls' = r.calls
         /\ named' = r.named
         /\ pc' = with_exit(r.result)
    /\ UNCHANGED <<graph, extras, stack, pushed, ran, entry, opts, asked, written,
                   output, listing, sval, sctx, sout,
                   sys_argv, cli>>

DispatchNone ==
    /\ pc = "dispatch" /\ cmd(opts) = "None"
    /\ result' = "NotImplementedError"
    /\ pc' = with_exit("NotImplementedError")
    /\ UNCHANGED <<graph, extras, stack, pushed, ran, entry, opts, asked, written,
                   output, applyCalls, named, listing, sval, sctx, sout,
                   sys_argv, cli>>

\* leaving "with cmd_exitstack:": every registered callback runs, the stack empties
MigrateExit ==
    /\ pc = "exit"
    /\ ran' = close(stack)
    /\ stack' = <<>>
    /\ pc' = "done"
    /\ UNCHANGED <<graph, extras, pushed, entry, opts, result, asked, written, output,
                   applyCalls, named, listing, sval, sctx, sout,
                   sys_argv, cli>>

\* merge(db) called on its own
CallMerge ==
    /\ pc = "idle"
    /\ \E db \in {"None", "db"}, a \in Answers :
         Apply(merge(db, "None", {}, graph, a))
    /\ pc' = "done"
    /\ entry' = "merge"
    /\ UNCHANGED <<extras, ran, opts, applyCalls, named, sval, sctx, sout,
                   sys_argv, cli>>

\* show_migrations(db, fail_fast) called on its own
CallShowMigrations ==
    /\ pc = "idle"
    /\ \E ff \in BOOLEAN :
         \E inp \in ListingInputs(graph, ff) :
            Apply(show_migrations("db", ff, graph, inp))
    /\ pc' = "done"
    /\ entry' = "show_migrations"
    /\ UNCHANGED <<extras, ran, opts, applyCalls, named, sval, sctx, sout,
                   sys_argv, cli>>

(***************************************************************************)
(* cli(db, argv)                                                           *)
(***************************************************************************)
\* a word of an argument vector: a literal word, or a migration-name token
Word(w) == <<"word", w>>
Token(t) == <<"token", t>>

\* the argument vector the process was started with
OrigArgv == <<Word("prog"), Word("migrate"), Word("make")>>

\* the migration-name words tried on the command line: one character each
CliTokens == {t \in Tokens : Len(t) = 1}

\* the argv strings handed to cli, as args.split() sees them; None: not given
CliArgvs ==
    {None,
     <<Word("migrate")>>,
     <<Word("migrate"), Word("list")>>,
     <<Word("migrate"), Word("make")>>,
     <<Word("migrate"), Word("apply")>>,
     <<Word("migrate"), Word("sql")>>,
     <<Word("migrate"), Word("list"), Word("list")>>,
     <<Word("list")>>}
    \cup {<<Word("migrate"), Word(c), Token(t)>> :
            c \in {"make", "apply", "sql"}, t \in CliTokens}
    \cup {<<Word("migrate"), Word("apply"), Token(t), Token(u)>> :
            t \in CliTokens, u \in CliTokens}

IsTokens(words) == \A i \in 1..Len(words) : words[i][1] = "token"

\* docopt(CLI_DOC % {'cli': 'cli migrate'}) over sys.argv[1:]: the options it
\* returns, or DocoptExit (a SystemExit) when no usage pattern matches
docopt(args) ==
    IF args = <<>> \/ Head(args) # Word("migrate")
    THEN [exc |-> "SystemExit", opts |-> NoOpts]
    ELSE LET rest == Tail(args) IN
    IF rest = <<>> THEN [exc |-> "None", opts |-> NoOpts]
    ELSE LET c == Head(rest)  a == Tail(rest) IN
    IF ~IsTokens(a) THEN [exc |-> "SystemExit", opts |-> NoOpts]
    ELSE IF c = Word("list") /\ a = <<>>
    THEN [exc |-> "None", opts |-> [NoOpts EXCEPT !.list = TRUE]]
    ELSE IF c = Word("sql") /\ Len(a) = 1
    THEN [exc |-> "None", opts |-> [NoOpts EXCEPT !.sql = TRUE, !.name = a[1][2]]]
    ELSE IF c = Word("make") /\ Len(a) <= 1
    THEN [exc |-> "None",
          opts |-> [NoOpts EXCEPT !.make = TRUE,
                                  !.name = IF a = <<>> THEN None ELSE a[1][2]]]
    ELSE IF c = Word("apply") /\ Len(a) <= 2
    THEN [exc |-> "None",
          opts |-> [NoOpts EXCEPT !.apply = TRUE,
                                  !.start = IF a = <<>> THEN None ELSE a[1][2],
                                  !.end = IF Len(a) = 2 THEN a[2][2] ELSE None]]
    ELSE [exc |-> "SystemExit", opts |-> NoOpts]

NoCli == [active |-> FALSE, argv |-> None, sys_argv |-> <<>>, use_argv |-> FALSE]

\* use_argv after its yield: the generator is resumed when the block ends
\* normally, and has the exception thrown into it at the yield otherwise
use_argv_exit(res, saved, current) == IF res = "ok" THEN saved ELSE current

\* the debugger toggle of the environment while cli runs
CliDebug == {FALSE}

\* cli up to the call of migrate: enter use_argv if argv is given, parse
CliEnter ==
    /\ pc = "idle"
    /\ \E argv \in CliArgvs, debug \in CliDebug :
         LET entered == Truthy(argv)
             now == IF entered THEN <<Word("cli")>> \o argv ELSE sys_argv
             parsed == docopt(Tail(now))
             frame == [active |-> TRUE, argv |-> argv, sys_argv |-> sys_argv,
                       use_argv |-> entered]
         IN
         IF parsed.exc # "None"
         THEN /\ cli' = frame
              /\ result' = parsed.exc
              /\ sys_argv' = IF entered THEN use_argv_exit(parsed.exc, sys_argv, now)
                             ELSE now
              /\ pc' = "cli_done"
              /\ entry' = "cli"
              /\ UNCHANGED <<opts, stack, pushed>>
         ELSE /\ cli' = frame
              /\ sys_argv' = now
              /\ opts' = parsed.opts
              /\ stack' = IF debug THEN Append(stack, "drop_into_debugger") ELSE stack
              /\ pushed' = IF debug THEN Append(pushed, "drop_into_debugger") ELSE pushed
              /\ pc' = "dispatch"
              /\ entry' = "migrate"
              /\ UNCHANGED result
    /\ UNCHANGED <<graph, extras, ran, asked, written, output, applyCalls, named, listing,
                   sval, sctx, sout>>

\* migrate has returned or raised: cli's ExitStack unwinds
CliExit ==
    /\ pc = "done" /\ cli.active
    /\ sys_argv' = IF cli.use_argv THEN use_argv_exit(result, cli.sys_argv, sys_argv)
                   ELSE sys_argv
    /\ pc' = "cli_done"
    /\ UNCHANGED <<graph, extras, stack, pushed, ran, entry, opts, result, asked, written,
                   output, applyCalls, named, listing, cli, sval, sctx, sout>>

NoValue == <<"none", "None">>

SerIdle ==
    /\ sval = NoValue
    /\ sctx = {}
    /\ sout = [state |-> "idle"]

CliIdle ==
    /\ stack = <<>>
    /\ pushed = <<>>
    /\ ran = <<>>
    /\ pc = "idle"
    /\ entry = "None"
    /\ opts = NoOpts
    /\ result = "ok"
    /\ asked = <<>>
    /\ written = <<>>
    /\ output = <<>>
    /\ applyCalls = <<>>
    /\ named = {}
    /\ listing = NoListing
    /\ sys_argv = OrigArgv
    /\ cli = NoCli

Init ==
    /\ graph \in {g \in Graphs : IsGraph(g)}
    /\ extras \in BOOLEAN
    /\ CliIdle
    /\ SerIdle

Next ==
    \/ MigrateEnter
    \/ DispatchMake
    \/ DispatchList
    \/ DispatchApply
    \/ DispatchSql
    \/ DispatchNone
    \/ MigrateExit
    \/ CallMerge
    \/ CallShowMigrations
    \/ CliEnter
    \/ CliExit

Spec == Init /\ [][Next]_vars

(***************************************************************************)
(* Properties of the command front end                                     *)
(***************************************************************************)
\* the graph as it was when the call began: merge only ever adds what it wrote
StartGraph ==
    [n \in DOMAIN graph \ {written[i].name : i \in 1..Len(written)} |-> graph[n]]

Finished == pc \in {"exit", "done"}

InList == entry = "migrate" /\ cmd(opts) = "list"

\* C1: when the list command finds more than one leaf and the operator accepts
\* the merge prompt, the command completes without raising, exactly one file is
\* written whose deps are the leaves found, and the graph then has one leaf.
C1_AcceptedMergeCompletes ==
    (Finished /\ InList /\ listing.leaves > 1 /\ asked # <<>> /\ Range(asked) = {TRUE})
        => /\ result = "ok"
           /\ Len(written) = 1
           /\ written[1].deps = leaf_nodes(StartGraph)
           /\ Cardinality(leaf_nodes(graph)) = 1

\* C2: in every run of show_migrations and of merge a file is written only if
\* more than one leaf existed and the operator answered yes to a merge prompt;
\* with more than one leaf and an operator who declines during listing, nothing
\* is written and show_migrations returns normally.
C2_WriteOnlyAfterYes ==
    /\ written # <<>>
          => /\ Cardinality(leaf_nodes(StartGraph)) > 1
             /\ TRUE \in Range(asked)
    /\ (/\ Finished
        /\ InList \/ entry = "show_migrations"
        /\ listing.leaves > 1
        /\ asked # <<>> /\ ~asked[1])
          => written = <<>> /\ result = "ok" /\ graph = StartGraph

C2_Witness ==
    /\ pc = "done" /\ entry = "merge"
    /\ Len(written) = 1
    /\ Cardinality(written[1].deps) = 2
    /\ asked = <<TRUE>>

\* C3: within one list command ask_merge is invoked at most once, and a listing
\* run with fail_fast set that still finds more than one leaf fails instead of
\* listing the history of one of them.
C3_PromptOnceThenFatal ==
    /\ InList => Len(asked) <= 1
    /\ (Finished /\ listing.fail_fast /\ listing.leaves > 1)
          => result # "ok" /\ ~listing.reached

\* C4: every callback registered on the cleanup stack while a command runs is
\* run, in reverse registration order, when command processing in migrate
\* finishes or fails; none is left pending after the command ends.
C4_CleanupAlwaysRuns ==
    (pc = "done" /\ entry = "migrate")
        => /\ stack = <<>>
           /\ ran = Reverse(pushed)

C4_Witness ==
    /\ pc = "done" /\ entry = "migrate"
    /\ result # "ok"
    /\ pushed = <<"drop_into_debugger", "disconnect">>
    /\ ran = <<"disconnect", "drop_into_debugger">>

\* the one directory entry a token selects, without its extension
Matches(t) == {f \in get_migration_dir(graph, extras) : IsPrefix(t, f)}
ResolvesTo(t, v) == Matches(t) = {v \o PyExt}

\* C5: for the apply command Migration.apply receives a single end bound (no
\* start bound) whenever exactly one positional token was given, a start+end
\* range when both were given, and no bound only when neither was given,
\* whichever slot holds a lone token.
C5_ApplyBounds ==
    (Finished /\ entry = "migrate" /\ cmd(opts) = "apply" /\ result = "ok")
        => /\ Len(applyCalls) = 1
           /\ LET c == applyCalls[1]
                  given == {t \in {opts.start, opts.end} : t # None}
              IN  /\ (opts.start # None /\ opts.end # None)
                        => /\ ResolvesTo(opts.start, c.name_start)
                           /\ ResolvesTo(opts.end, c.name_end)
                  /\ (opts.start = None) # (opts.end = None)
                        => /\ c.name_start = None
                           /\ \E t \in given : ResolvesTo(t, c.name_end)
                  /\ (c.name_start = None /\ c.name_end = None) => given = {}

\* the tokens a command resolves, in the order it resolves them
LookedUp(o) ==
    IF cmd(o) = "sql" THEN <<o.name>>
    ELSE IF cmd(o) = "apply" /\ o.start # None /\ o.end = None THEN <<o.start>>
    ELSE IF cmd(o) = "apply" /\ o.start # None /\ o.end # None THEN <<o.start, o.end>>
    ELSE <<>>

LookupFailures == {"Multiple files found", "No files", "AssertionError"}

Outcome(t) ==
    IF Cardinality(Matches(t)) > 1 THEN "Multiple files found"
    ELSE IF Matches(t) = {} THEN "No files"
    ELSE IF \E f \in Matches(t) : LastN(f, 3) = PyExt THEN "ok"
    ELSE "AssertionError"

C7_ListingOutput ==
    listing.reached
        => LET plan == listing.plan
               Applied(n) == \E r \in listing.rows : r.name = n
               Time(n) == (CHOOSE r \in listing.rows : r.name = n).applied
               Pos(n) == CHOOSE i \in 1..Len(plan) : plan[i] = n
               N == Len(output)
           IN  /\ \A n \in Range(plan) : Cardinality({i \in 1..N : output[i].name = n}) = 1
               /\ \A i \in 1..N : output[i].name \in Range(plan)
               /\ \A i \in 1..N : (output[i].mark = "+") <=> Applied(output[i].name)
               /\ \A i \in 1..N : output[i].mark \in {"+", " "}
               /\ \A i, j \in 1..N :
                     i < j => \/ output[i].mark = "+" /\ output[j].mark = " "
                              \/ /\ output[i].mark = "+" /\ output[j].mark = "+"
                                 /\ Time(output[i].name) <= Time(output[j].name)
                              \/ /\ output[i].mark = " " /\ output[j].mark = " "
                                 /\ Pos(output[i].name) < Pos(output[j].name)

C7_Witness ==
    /\ listing.reached
    /\ Len(output) = 3
    /\ output[1].mark = "+" /\ output[2].mark = "+" /\ output[3].mark = " "
    /\ output[1].name > output[2].name

(***************************************************************************)
(* The serializer: values                                                  *)
(*                                                                         *)
(* A value is <<kind, payload>>; the payload's shape depends on the kind   *)
(* alone.  Text is a sequence of tokens; imports a set of strings.         *)
(***************************************************************************)
MaxLen == 2

PY2 == FALSE

V(k, v) == <<k, v>>

\* isinstance / hasattr facts about a value, by kind
Traits(value) ==
    CASE value[1] = "attribute"         -> {"Attribute", "deconstruct"}
      [] value[1] = "entity"            -> {"EntityMeta", "type", "deconstruct", "Iterable"}
      [] value[1] = "class"             -> {"type"}
      [] value[1] = "class_deconstruct" -> {"type", "deconstruct"}
      [] value[1] = "enum_class"        -> {"type", "Iterable"}
      [] value[1] = "operation"         -> {"deconstruct"}
      [] value[1] = "list_deconstruct"  -> {"list", "Iterable", "deconstruct"}
      [] value[1] = "frozenset"         -> {"frozenset", "Iterable"}
      [] value[1] = "list"              -> {"list", "Iterable"}
      [] value[1] = "set"               -> {"set", "Iterable"}
      [] value[1] = "tuple"             -> {"tuple", "Iterable"}
      [] value[1] = "dict"              -> {"dict", "Iterable"}
      [] value[1] = "enum"              -> {"Enum"}
      [] value[1] = "intenum"           -> {"Enum", "int"}
      [] value[1] = "datetime"          -> {"datetime", "date"}
      [] value[1] = "date"              -> {"date"}
      [] value[1] = "time"              -> {"time"}
      [] value[1] = "timedelta"         -> {"timedelta"}
      [] value[1] = "float"             -> {"float"}
      [] value[1] = "int"               -> {"int"}
      [] value[1] = "bool"              -> {"int", "bool"}
      [] value[1] = "none"              -> {"NoneType"}
      [] value[1] = "bytes"             -> {"bytes", "Iterable"}
      [] value[1] = "str"               -> {"unicode", "Iterable"}
      [] value[1] = "decimal"           -> {"Decimal"}
      [] value[1] = "partial"           -> {"partial"}
      [] value[1] = "function"          -> {"FunctionType"}
      [] value[1] = "builtin_function"  -> {"BuiltinFunctionType"}
      [] value[1] = "generator"         -> {"Iterable"}
      [] value[1] = "regex"             -> {"regex"}
      [] OTHER                         -> {}

isinstance(value, types) == Traits(value) \cap types # {}

hasattr_deconstruct(value) == "deconstruct" \in Traits(value)

Serializer(cls, ctx) == [cls |-> cls, ctx |-> ctx]

serializer_factory_deconstruct_first(value, ctx) ==
    IF isinstance(value, {"Attribute"}) THEN Serializer("AttributeSerializer", ctx)
    ELSE IF isinstance(value, {"EntityMeta"}) THEN Serializer("EntitySerializer", ctx)
    ELSE IF hasattr_deconstruct(value) THEN Serializer("DeconstructableSerializer", ctx)
    ELSE IF isinstance(value, {"type"}) THEN Serializer("TypeSerializer", ctx)
    ELSE IF isinstance(value, {"frozenset"}) THEN Serializer("FrozensetSerializer", ctx)
    ELSE IF isinstance(value, {"list"}) THEN Serializer("SequenceSerializer", ctx)
    ELSE IF isinstance(value, {"set"}) THEN Serializer("SetSerializer", ctx)
    ELSE IF isinstance(value, {"tuple"}) THEN Serializer("TupleSerializer", ctx)
    ELSE IF isinstance(value, {"dict"}) THEN Serializer("DictionarySerializer", ctx)
    ELSE IF isinstance(value, {"Enum"}) THEN Serializer("EnumSerializer", ctx)
    ELSE IF isinstance(value, {"datetime"}) THEN Serializer("DatetimeSerializer", ctx)
    ELSE IF isinstance(value, {"date"}) THEN Serializer("DateSerializer", ctx)
    ELSE IF isinstance(value, {"time"}) THEN Serializer("TimeSerializer", ctx)
    ELSE IF isinstance(value, {"timedelta"}) THEN Serializer("TimedeltaSerializer", ctx)
    ELSE IF isinstance(value, {"float"}) THEN Serializer("FloatSerializer", ctx)
    ELSE IF isinstance(value, {"int", "bool", "NoneType"})
         THEN Serializer("BaseSimpleSerializer", ctx)
    ELSE IF isinstance(value, {IF PY2 THEN "str" ELSE "bytes"})
         THEN Serializer("ByteTypeSerializer", ctx)
    ELSE IF isinstance(value, {"unicode"}) THEN Serializer("TextTypeSerializer", ctx)
    ELSE IF isinstance(value, {"Decimal"}) THEN Serializer("DecimalSerializer", ctx)
    ELSE IF isinstance(value, {"partial"}) THEN Serializer("FunctoolsPartialSerializer", ctx)
    ELSE IF isinstance(value, {"FunctionType", "BuiltinFunctionType"})
         THEN Serializer("FunctionTypeSerializer", ctx \cup {"is_dynamic"})
    ELSE IF isinstance(value, {"Iterable"}) THEN Serializer("IterableSerializer", ctx)
    ELSE IF isinstance(value, {"regex"}) THEN Serializer("RegexSerializer", ctx)
    ELSE Serializer("ValueError", ctx)

\* ctx is the set of flags that are set in the context mapping; None becomes {}
serializer_factory(value, ctx) ==
    IF isinstance(value, {"Attribute"}) THEN Serializer("AttributeSerializer", ctx)
    ELSE IF isinstance(value, {"EntityMeta"}) THEN Serializer("EntitySerializer", ctx)
    ELSE IF isinstance(value, {"type"}) THEN Serializer("TypeSerializer", ctx)
    ELSE IF hasattr_deconstruct(value) THEN Serializer("DeconstructableSerializer", ctx)
    ELSE IF isinstance(value, {"frozenset"}) THEN Serializer("FrozensetSerializer", ctx)
    ELSE IF isinstance(value, {"list"}) THEN Serializer("SequenceSerializer", ctx)
    ELSE IF isinstance(value, {"set"}) THEN Serializer("SetSerializer", ctx)
    ELSE IF isinstance(value, {"tuple"}) THEN Serializer("TupleSerializer", ctx)
    ELSE IF isinstance(value, {"dict"}) THEN Serializer("DictionarySerializer", ctx)
    ELSE IF isinstance(value, {"Enum"}) THEN Serializer("EnumSerializer", ctx)
    ELSE IF isinstance(value, {"datetime"}) THEN Serializer("DatetimeSerializer", ctx)
    ELSE IF isinstance(value, {"date"}) THEN Serializer("DateSerializer", ctx)
    ELSE IF isinstance(value, {"time"}) THEN Serializer("TimeSerializer", ctx)
    ELSE IF isinstance(value, {"timedelta"}) THEN Serializer("TimedeltaSerializer", ctx)
    ELSE IF isinstance(value, {"float"}) THEN Serializer("FloatSerializer", ctx)
    ELSE IF isinstance(value, {"int", "bool", "NoneType"})
         THEN Serializer("BaseSimpleSerializer", ctx)
    ELSE IF isinstance(value, {IF PY2 THEN "str" ELSE "bytes"})
         THEN Serializer("ByteTypeSerializer", ctx)
    ELSE IF isinstance(value, {"unicode"}) THEN Serializer("TextTypeSerializer", ctx)
    ELSE IF isinstance(value, {"Decimal"}) THEN Serializer("DecimalSerializer", ctx)
    ELSE IF isinstance(value, {"partial"}) THEN Serializer("FunctoolsPartialSerializer", ctx)
    ELSE IF isinstance(value, {"FunctionType", "BuiltinFunctionType"})
         THEN Serializer("FunctionTypeSerializer", ctx \cup {"is_dynamic"})
    ELSE IF isinstance(value, {"Iterable"}) THEN Serializer("IterableSerializer", ctx)
    ELSE IF isinstance(value, {"regex"}) THEN Serializer("RegexSerializer", ctx)
    ELSE Serializer("ValueError", ctx)

(***************************************************************************)
(* The serializer: renderers                                               *)
(***************************************************************************)
Ok(text, imports) == [err |-> "None", text |-> text, imports |-> imports]
Raise(exc) == [err |-> exc, text |-> <<>>, imports |-> {}]

\* sep.join(strings), on token sequences
RECURSIVE Join(_, _)
Join(strings, sep) ==
    IF strings = <<>> THEN <<>>
    ELSE IF Len(strings) = 1 THEN strings[1]
    ELSE strings[1] \o sep \o Join(Tail(strings), sep)

RECURSIVE JoinDots(_)
JoinDots(parts) ==
    IF Len(parts) = 1 THEN parts[1] ELSE parts[1] \o "." \o JoinDots(Tail(parts))

StrRank(str) == CHOOSE i \in 1..Len(Alphabet) : Alphabet[i] = str

\* the order Python's sorted() gives two keys; unorderable kinds raise TypeError
Orderable(a, b) == a[1] = b[1] /\ a[1] \in {"int", "str"}
KeyLess(a, b) == IF a[1] = "int" THEN a[2] < b[2] ELSE StrRank(a[2]) < StrRank(b[2])

\* sorted(items) for a sequence of <<key, value>> pairs with distinct keys
Sorted(items) ==
    LET n == Len(items)
        p == CHOOSE q \in Perms(1..n) :
                 \A i, j \in 1..n : i < j => KeyLess(items[q[i]][1], items[q[j]][1])
    IN  [i \in 1..n |-> items[p[i]]]

\* the top-level names each module defines (hasattr(module, name))
ModuleTop(module) ==
    IF module = "m" THEN {"f", "K"}
    ELSE IF module = "builtins" THEN {"len"}
    ELSE {}

\* ast2src(decompile(func)): source text of a lambda's body expression
ast2src(body) == IF body[1] = "name" THEN <<body[2]>> ELSE <<ToString(body[2])>>

FunctionTypeSerializer(func) ==
    IF func.self_name # "None"
    THEN Ok(<<func.self_module \o "." \o func.self_name \o "." \o func.name>>,
            {"import " \o func.self_module})
    ELSE IF func.name = "<lambda>"
    THEN Ok(<<"lambda", ":">> \o ast2src(func.body), {})
    ELSE IF func.module = "None"
    THEN Raise("ValueError")
    ELSE IF func.qualname # <<>> /\ "<locals>" \notin Range(func.qualname)
    THEN Ok(<<func.module \o "." \o JoinDots(func.qualname)>>, {"import " \o func.module})
    ELSE IF func.name \notin ModuleTop(func.module)
    THEN Raise("ValueError")
    ELSE IF func.module = "__builtin__"
    THEN Ok(<<func.name>>, {})
    ELSE Ok(<<func.module \o "." \o func.name>>, {"import " \o func.module})

FloatSerializer(v) ==
    IF v \in {"nan", "inf", "-inf"}
    THEN Ok(<<"float", "(", "\"" \o v \o "\"", ")">>, {})
    ELSE Ok(<<v>>, {})

repr(value) ==
    CASE value[1] = "int"  -> ToString(value[2])
      [] value[1] = "bool" -> IF value[2] THEN "True" ELSE "False"
      [] value[1] = "none" -> "None"
      [] value[1] = "str"  -> "'" \o value[2] \o "'"
      [] value[1] = "bytes" -> "b'" \o value[2] \o "'"
      [] OTHER -> value[2]

DatetimeSerializer(v) ==
    LET tz == IF v.tz # "None" /\ v.tz # "utc" THEN "utc" ELSE v.tz IN
    IF tz = "None" THEN Ok(<<v.repr \o ")">>, {"import datetime"})
    ELSE Ok(<<v.repr \o ", tzinfo=utc)">>,
            {"import datetime", "from pony.migrate.utils import utc"})

TypeSerializer(v) ==
    IF v.module = "decimal" /\ v.name = "Decimal"
    THEN Ok(<<"Decimal">>, {"from decimal import Decimal"})
    ELSE IF v.module = "builtins" THEN Ok(<<v.name>>, {})
    ELSE Ok(<<v.module \o "." \o v.name>>, {"import " \o v.module})

EntitySerializer(name, ctx) ==
    IF "has_db_var" \in ctx THEN Ok(<<"db." \o name>>, {})
    ELSE Ok(<<"'" \o name \o "'">>, {})

_serialize_path(module, name) ==
    IF module = "pony.orm.core" THEN Ok(<<"orm." \o name>>, {"from pony import orm"})
    ELSE IF module = "pony.migrate.diagram_ops"
    THEN Ok(<<"op." \o name>>, {"from pony.migrate import diagram_ops as op"})
    ELSE Ok(<<module \o "." \o name>>, {"import " \o module})

RECURSIVE serialize(_, _)
RECURSIVE serialize_all(_, _)
RECURSIVE serialize_pairs(_, _)
RECURSIVE serialize_kwargs(_, _)

\* one loop over items: the strings, the imports, or the first error
serialize_all(items, ctx) ==
    IF items = <<>> THEN [err |-> "None", strings |-> <<>>, imports |-> {}]
    ELSE LET h == serialize(Head(items), ctx) IN
         IF h.err # "None" THEN [err |-> h.err, strings |-> <<>>, imports |-> {}]
         ELSE LET t == serialize_all(Tail(items), ctx) IN
              IF t.err # "None" THEN t
              ELSE [err |-> "None", strings |-> <<h.text>> \o t.strings,
                    imports |-> h.imports \cup t.imports]

\* the loop of DictionarySerializer: "k: v" strings
serialize_pairs(items, ctx) ==
    IF items = <<>> THEN [err |-> "None", strings |-> <<>>, imports |-> {}]
    ELSE LET k == serialize(Head(items)[1], ctx) IN
         IF k.err # "None" THEN [err |-> k.err, strings |-> <<>>, imports |-> {}]
         ELSE LET v == serialize(Head(items)[2], ctx) IN
              IF v.err # "None" THEN [err |-> v.err, strings |-> <<>>, imports |-> {}]
              ELSE LET t == serialize_pairs(Tail(items), ctx) IN
                   IF t.err # "None" THEN t
                   ELSE [err |-> "None",
                         strings |-> <<k.text \o <<":">> \o v.text>> \o t.strings,
                         imports |-> k.imports \cup v.imports \cup t.imports]

\* the keyword loop of _format_args: "kw=arg" strings; kw is a letter
serialize_kwargs(items, ctx) ==
    IF items = <<>> THEN [err |-> "None", strings |-> <<>>, imports |-> {}]
    ELSE LET a == serialize(Head(items)[2], ctx) IN
         IF a.err # "None" THEN [err |-> a.err, strings |-> <<>>, imports |-> {}]
         ELSE LET t == serialize_kwargs(Tail(items), ctx) IN
              IF t.err # "None" THEN t
              ELSE [err |-> "None",
                    strings |-> <<<<Head(items)[1][2], "=">> \o a.text>> \o t.strings,
                    imports |-> a.imports \cup t.imports]

\* BaseSequenceSerializer.serialize with the subclass's _format()
BaseSequenceSerializer(items, open, shut) ==
    LET r == serialize_all(items, {}) IN
    IF r.err # "None" THEN Raise(r.err)
    ELSE Ok(open \o Join(r.strings, <<",">>) \o shut, r.imports)

TupleSerializer(items) ==
    BaseSequenceSerializer(items, <<"(">>, IF Len(items) # 1 THEN <<")">> ELSE <<",", ")">>)

IterableSerializer(items) ==
    LET r == serialize_all(items, {}) IN
    IF r.err # "None" THEN Raise(r.err)
    ELSE Ok(<<"(">> \o Join(r.strings, <<",">>)
            \o (IF Len(r.strings) # 1 THEN <<")">> ELSE <<",", ")">>), r.imports)

DictionarySerializer(items) ==
    IF \E i, j \in 1..Len(items) : i # j /\ ~Orderable(items[i][1], items[j][1])
    THEN Raise("TypeError")
    ELSE LET r == serialize_pairs(Sorted(items), {}) IN
         IF r.err # "None" THEN Raise(r.err)
         ELSE Ok(<<"{">> \o Join(r.strings, <<",">>) \o <<"}">>, r.imports)

EnumSerializer(v) ==
    LET r == serialize(v.value, {}) IN
    IF r.err # "None" THEN Raise(r.err)
    ELSE Ok(<<v.module \o "." \o v.cls, "(">> \o r.text \o <<")">>,
            {"import " \o v.module} \cup r.imports)

FunctoolsPartialSerializer(v) ==
    LET f == serialize(v.func, {}) IN
    IF f.err # "None" THEN Raise(f.err)
    ELSE LET a == serialize(v.args, {}) IN
    IF a.err # "None" THEN Raise(a.err)
    ELSE LET k == serialize(v.keywords, {}) IN
    IF k.err # "None" THEN Raise(k.err)
    ELSE Ok(<<"functools.partial", "(">> \o f.text \o <<",", "*">> \o a.text
            \o <<",", "**">> \o k.text \o <<")">>,
            {"import functools"} \cup f.imports \cup a.imports \cup k.imports)

RegexSerializer(v) ==
    LET pt == serialize(v.pattern, {}) IN
    LET fl == serialize(v.flags, {}) IN
    Ok(<<"re.compile", "(">> \o pt.text
       \o (IF v.flags[2] # 0 THEN <<",">> \o fl.text ELSE <<>>) \o <<")">>,
       {"import re"} \cup pt.imports \cup fl.imports)

\* DeconstructableSerializer.serialize_deconstructed(path, args, kwargs)
DeconstructableSerializer(v, ctx) ==
    LET nm == _serialize_path(v.module, v.name) IN
    LET a == serialize_all(v.args, ctx) IN
    IF a.err # "None" THEN Raise(a.err)
    ELSE LET k == serialize_kwargs(Sorted(v.kwargs), ctx) IN
    IF k.err # "None" THEN Raise(k.err)
    ELSE Ok(nm.text \o <<"(">> \o Join(a.strings \o k.strings, <<",">>) \o <<")">>,
            nm.imports \cup a.imports \cup k.imports)

\* serializer_factory(value, ctx).serialize()
serialize(value, ctx) ==
    LET sz == serializer_factory(value, ctx) IN
    CASE sz.cls = "AttributeSerializer"        -> DeconstructableSerializer(value[2], sz.ctx)
      [] sz.cls = "EntitySerializer"           -> EntitySerializer(value[2], sz.ctx)
      [] sz.cls = "TypeSerializer"             -> TypeSerializer(value[2])
      [] sz.cls = "DeconstructableSerializer"  ->
             \* value.deconstruct() on a class is a call without self
             IF isinstance(value, {"type"}) THEN Raise("TypeError")
             ELSE DeconstructableSerializer(value[2], sz.ctx)
      [] sz.cls = "FrozensetSerializer"        ->
             BaseSequenceSerializer(value[2], <<"frozenset", "(", "[">>, <<"]", ")">>)
      [] sz.cls = "SequenceSerializer"         ->
             BaseSequenceSerializer(value[2], <<"[">>, <<"]">>)
      [] sz.cls = "SetSerializer"              ->
             BaseSequenceSerializer(value[2], <<"set", "(", "[">>, <<"]", ")">>)
      [] sz.cls = "TupleSerializer"            -> TupleSerializer(value[2])
      [] sz.cls = "DictionarySerializer"       -> DictionarySerializer(value[2])
      [] sz.cls = "EnumSerializer"             -> EnumSerializer(value[2])
      [] sz.cls = "DatetimeSerializer"         -> DatetimeSerializer(value[2])
      [] sz.cls = "DateSerializer"             -> Ok(<<repr(value)>>, {"import datetime"})
      [] sz.cls = "TimeSerializer"             -> Ok(<<repr(value)>>, {"import datetime"})
      [] sz.cls = "TimedeltaSerializer"        -> Ok(<<repr(value)>>, {"import datetime"})
      [] sz.cls = "FloatSerializer"            -> FloatSerializer(value[2])
      [] sz.cls = "BaseSimpleSerializer"       -> Ok(<<repr(value)>>, {})
      [] sz.cls = "ByteTypeSerializer"         -> Ok(<<repr(value)>>, {})
      [] sz.cls = "TextTypeSerializer"         -> Ok(<<repr(value)>>, {})
      [] sz.cls = "DecimalSerializer"          ->
             Ok(<<repr(value)>>, {"from decimal import Decimal"})
      [] sz.cls = "FunctoolsPartialSerializer" -> FunctoolsPartialSerializer(value[2])
      [] sz.cls = "FunctionTypeSerializer"     -> FunctionTypeSerializer(value[2])
      [] sz.cls = "IterableSerializer"         -> IterableSerializer(value[2])
      [] sz.cls = "RegexSerializer"            -> RegexSerializer(value[2])
      [] OTHER                                 -> Raise("ValueError")

(***************************************************************************)
(* The bounded universe of values                                          *)
(***************************************************************************)
Fn(name, module, qualname, self_module, self_name, params, body) ==
    [name |-> name, module |-> module, qualname |-> qualname,
     self_module |-> self_module, self_name |-> self_name,
     params |-> params, body |-> body]

Int1 == V("int", 1)
Int2 == V("int", 2)
StrA == V("str", "a")
StrB == V("str", "b")
NaN == V("float", "nan")

\* def f(): ...  at the top level of module m
F_top == V("function", Fn("f", "m", <<"f">>, "None", "None", <<>>, NoValue))
\* class K: def g(self): ...   taken from the class
F_method == V("function", Fn("g", "m", <<"K", "g">>, "None", "None", <<>>, NoValue))
\* class K: @classmethod def cm(cls): ...   bound to K
F_classmethod == V("function", Fn("cm", "m", <<"K", "cm">>, "m", "K", <<>>, NoValue))
\* def outer(): def f(): ...   (m also defines a top-level f)
F_local_shadow ==
    V("function", Fn("f", "m", <<"outer", "<locals>", "f">>, "None", "None", <<>>, NoValue))
\* def outer(): def h(): ...   (m defines no top-level h)
F_local ==
    V("function", Fn("h", "m", <<"outer", "<locals>", "h">>, "None", "None", <<>>, NoValue))
F_nomodule == V("function", Fn("f", "None", <<"f">>, "None", "None", <<>>, NoValue))
\* lambda: 1   and   lambda x: x
Lambda0 == V("function", Fn("<lambda>", "m", <<"<lambda>">>, "None", "None", <<>>, Int1))
Lambda1 ==
    V("function", Fn("<lambda>", "m", <<"<lambda>">>, "None", "None", <<"x">>, V("name", "x")))
F_len == V("builtin_function", Fn("len", "builtins", <<"len">>, "None", "None", <<>>, NoValue))

Scalars ==
    {Int1, Int2, StrA, StrB, NoValue, V("bool", TRUE), V("bool", FALSE),
     V("float", "1.5"), NaN, V("float", "inf"), V("float", "-inf")}

Callables ==
    {F_top, F_method, F_classmethod, F_local_shadow, F_local, F_nomodule,
     Lambda0, Lambda1, F_len}

SeqsOver(E) == UNION {[1..n -> E] : n \in 0..MaxLen}
Distinct(q) == \A i, j \in 1..Len(q) : q[i] = q[j] => i = j
DistinctKeys(q) == \A i, j \in 1..Len(q) : q[i][1] = q[j][1] => i = j

Elems == {Int1, Int2, StrA, NaN}
DictB2A1 == V("dict", <<<<StrB, Int2>>, <<StrA, Int1>>>>)
Inner ==
    {Int1, V("list", <<Int1>>), V("tuple", <<>>), V("tuple", <<Int1>>), DictB2A1,
     V("set", <<Int2, Int1>>), Lambda1}

Collections ==
    {V(k, q) : k \in {"list", "tuple"}, q \in SeqsOver(Elems) \cup SeqsOver(Inner)}
    \cup {V(k, q) : k \in {"set", "frozenset"}, q \in {x \in SeqsOver(Elems) : Distinct(x)}}
    \cup {V("dict", q) :
            q \in {x \in SeqsOver({Int1, Int2, StrA, StrB} \X {Int1, Int2}) : DistinctKeys(x)}}
    \cup {V("dict", <<<<StrA, x>>>>) : x \in Inner}
    \cup {V("generator", q) : q \in SeqsOver({Int1})}

Partials ==
    {V("partial", [func |-> f, args |-> V("tuple", a), keywords |-> V("dict", kw)]) :
        f \in {F_top, Lambda0, Lambda1, F_local},
        a \in SeqsOver({Int1}),
        kw \in {<<>>, <<<<StrA, Int1>>>>, <<<<StrB, Int2>>, <<StrA, Int1>>>>}}

Call(module, name, args, kwargs) ==
    [module |-> module, name |-> name, args |-> args, kwargs |-> kwargs]

Person == V("entity", "Person")

\* one or two values of every remaining kind the factory distinguishes
Others ==
    {V("attribute", Call("pony.orm.core", "Required", <<V("class", [module |-> "builtins", name |-> "int"])>>,
                         <<<<StrB, Int1>>, <<StrA, Int2>>>>)),
     Person,
     V("class", [module |-> "builtins", name |-> "int"]),
     V("class", [module |-> "decimal", name |-> "Decimal"]),
     V("class", [module |-> "m", name |-> "K"]),
     V("class_deconstruct", [module |-> "m", name |-> "Op"]),
     V("enum_class", [module |-> "m", name |-> "Color"]),
     V("operation", Call("pony.migrate.diagram_ops", "AddAttr", <<Person, Int1>>, <<>>)),
     V("operation", Call("m", "Op", <<>>, <<<<StrA, Person>>>>)),
     V("list_deconstruct", Call("m", "OpList", <<Int1>>, <<>>)),
     V("enum", [module |-> "m", cls |-> "Color", value |-> StrA]),
     V("intenum", [module |-> "m", cls |-> "Level", value |-> Int1]),
     V("datetime", [repr |-> "datetime.datetime(2020, 1, 1, 0, 0", tz |-> "None"]),
     V("datetime", [repr |-> "datetime.datetime(2020, 1, 1, 0, 0", tz |-> "utc"]),
     V("datetime", [repr |-> "datetime.datetime(2020, 1, 1, 0, 0", tz |-> "est"]),
     V("date", "datetime.date(2020, 1, 1)"),
     V("time", "datetime.time(0, 0)"),
     V("timedelta", "datetime.timedelta(1)"),
     V("decimal", "Decimal('1.5')"),
     V("bytes", "a"),
     V("regex", [pattern |-> StrA, flags |-> V("int", 0)]),
     V("regex", [pattern |-> StrA, flags |-> Int2]),
     V("object", "object")}

\* a declared entity class inside each kind of container
EntityNests ==
    {V("list", <<Person>>),
     V("tuple", <<Person, Int1>>),
     V("set", <<Person>>),
     V("frozenset", <<Person>>),
     V("dict", <<<<StrA, Person>>>>),
     V("generator", <<Person>>),
     V("partial", [func |-> F_top, args |-> V("tuple", <<Person>>),
                   keywords |-> V("dict", <<<<StrA, Person>>>>)]),
     V("list", <<V("operation", Call("m", "Op", <<Person>>, <<>>))>>),
     V("operation", Call("m", "Op", <<V("list", <<Person>>)>>, <<>>)),
     V("operation", Call("m", "Op", <<V("operation", Call("m", "Op", <<Person>>, <<>>))>>,
                         <<>>))}

Values ==
    Scalars \cup Callables \cup Collections \cup Partials \cup Others \cup EntityNests

Contexts == {{}, {"has_db_var"}}

(***************************************************************************)
(* Reading the text back: the expression grammar the renderers emit        *)
(***************************************************************************)
\* what a dotted name denotes where the text is evaluated
Namespace == {F_top, F_method, F_classmethod, F_len}
Path(f) == f[2].module \o "." \o JoinDots(f[2].qualname)

LiteralAtoms ==
    {Int1, Int2, V("int", 0), StrA, StrB, NoValue, V("bool", TRUE), V("bool", FALSE),
     V("float", "1.5")}

PFail == [ok |-> FALSE, val |-> NoValue, rest |-> <<>>]
POk(v, rest) == [ok |-> TRUE, val |-> v, rest |-> rest]

ParseAtom(tok) ==
    IF \E a \in LiteralAtoms : repr(a) = tok
    THEN CHOOSE a \in LiteralAtoms : repr(a) = tok
    ELSE IF \E f \in Namespace : Path(f) = tok
    THEN CHOOSE f \in Namespace : Path(f) = tok
    ELSE V("name", tok)

\* list(dict.fromkeys(q)): first occurrences, in order
RECURSIVE Dedup(_)
Dedup(q) ==
    IF q = <<>> THEN <<>>
    ELSE LET d == Dedup(SubSeq(q, 1, Len(q) - 1)) IN
         IF q[Len(q)] \in Range(d) THEN d ELSE Append(d, q[Len(q)])

RECURSIVE ParseExpr(_)
RECURSIVE ParseItems(_, _)
RECURSIVE ParsePairs(_)
RECURSIVE ParseParams(_)

\* expr (, expr)* [,] close   ->   the values, and whether a comma was seen
ParseItems(toks, shut) ==
    IF toks = <<>> THEN [ok |-> FALSE, vals |-> <<>>, rest |-> <<>>, commas |-> 0]
    ELSE IF Head(toks) = shut
    THEN [ok |-> TRUE, vals |-> <<>>, rest |-> Tail(toks), commas |-> 0]
    ELSE LET e == ParseExpr(toks) IN
         IF ~e.ok \/ e.rest = <<>>
         THEN [ok |-> FALSE, vals |-> <<>>, rest |-> <<>>, commas |-> 0]
         ELSE IF Head(e.rest) = shut
         THEN [ok |-> TRUE, vals |-> <<e.val>>, rest |-> Tail(e.rest), commas |-> 0]
         ELSE IF Head(e.rest) = ","
         THEN LET r == ParseItems(Tail(e.rest), shut) IN
              [ok |-> r.ok, vals |-> <<e.val>> \o r.vals, rest |-> r.rest,
               commas |-> r.commas + 1]
         ELSE [ok |-> FALSE, vals |-> <<>>, rest |-> <<>>, commas |-> 0]

\* key : value (, key : value)* }
ParsePairs(toks) ==
    IF toks = <<>> THEN [ok |-> FALSE, vals |-> <<>>, rest |-> <<>>]
    ELSE IF Head(toks) = "}" THEN [ok |-> TRUE, vals |-> <<>>, rest |-> Tail(toks)]
    ELSE LET k == ParseExpr(toks) IN
         IF ~k.ok \/ k.rest = <<>> \/ Head(k.rest) # ":"
         THEN [ok |-> FALSE, vals |-> <<>>, rest |-> <<>>]
         ELSE LET v == ParseExpr(Tail(k.rest)) IN
              IF ~v.ok \/ v.rest = <<>> THEN [ok |-> FALSE, vals |-> <<>>, rest |-> <<>>]
              ELSE IF Head(v.rest) = "}"
              THEN [ok |-> TRUE, vals |-> <<<<k.val, v.val>>>>, rest |-> Tail(v.rest)]
              ELSE IF Head(v.rest) = ","
              THEN LET r == ParsePairs(Tail(v.rest)) IN
                   [ok |-> r.ok, vals |-> <<<<k.val, v.val>>>> \o r.vals, rest |-> r.rest]
              ELSE [ok |-> FALSE, vals |-> <<>>, rest |-> <<>>]

\* the parameter names of a lambda, up to the colon
ParseParams(toks) ==
    IF toks = <<>> THEN [ok |-> FALSE, vals |-> <<>>, rest |-> <<>>]
    ELSE IF Head(toks) = ":" THEN [ok |-> TRUE, vals |-> <<>>, rest |-> Tail(toks)]
    ELSE IF Head(toks) = "," THEN ParseParams(Tail(toks))
    ELSE LET r == ParseParams(Tail(toks)) IN
         [ok |-> r.ok, vals |-> <<Head(toks)>> \o r.vals, rest |-> r.rest]

Expect(toks, tok) == toks # <<>> /\ Head(toks) = tok

ParseExpr(toks) ==
    IF toks = <<>> THEN PFail
    ELSE LET h == Head(toks)  t == Tail(toks) IN
    CASE h = "[" ->
           LET r == ParseItems(t, "]") IN
           IF r.ok THEN POk(V("list", r.vals), r.rest) ELSE PFail
      [] h = "(" ->
           LET r == ParseItems(t, ")") IN
           IF ~r.ok THEN PFail
           ELSE IF Len(r.vals) = 1 /\ r.commas = 0 THEN POk(r.vals[1], r.rest)
           ELSE POk(V("tuple", r.vals), r.rest)
      [] h = "{" ->
           LET r == ParsePairs(t) IN
           IF r.ok /\ DistinctKeys(r.vals) THEN POk(V("dict", r.vals), r.rest) ELSE PFail
      [] h \in {"set", "frozenset"} ->
           IF ~Expect(t, "(") THEN PFail
           ELSE LET r == ParseExpr(Tail(t)) IN
                IF r.ok /\ r.val[1] = "list" /\ Expect(r.rest, ")")
                THEN POk(V(h, Dedup(r.val[2])), Tail(r.rest)) ELSE PFail
      [] h = "float" ->
           IF Len(t) >= 3 /\ t[1] = "(" /\ t[3] = ")"
              /\ \E x \in {"nan", "inf", "-inf"} : t[2] = "\"" \o x \o "\""
           THEN POk(V("float", CHOOSE x \in {"nan", "inf", "-inf"} : t[2] = "\"" \o x \o "\""),
                    SubSeq(t, 4, Len(t)))
           ELSE PFail
      [] h = "lambda" ->
           LET ps == ParseParams(t) IN
           IF ~ps.ok THEN PFail
           ELSE LET b == ParseExpr(ps.rest) IN
                IF ~b.ok THEN PFail
                ELSE POk(V("function", Fn("<lambda>", "migration", <<"<lambda>">>, "None",
                                          "None", ps.vals, b.val)), b.rest)
      [] h = "functools.partial" ->
           IF ~Expect(t, "(") THEN PFail
           ELSE LET f == ParseExpr(Tail(t)) IN
           IF ~(f.ok /\ Len(f.rest) >= 2 /\ f.rest[1] = "," /\ f.rest[2] = "*") THEN PFail
           ELSE LET a == ParseExpr(SubSeq(f.rest, 3, Len(f.rest))) IN
           IF ~(a.ok /\ Len(a.rest) >= 2 /\ a.rest[1] = "," /\ a.rest[2] = "**") THEN PFail
           ELSE LET k == ParseExpr(SubSeq(a.rest, 3, Len(a.rest))) IN
           IF ~(k.ok /\ Expect(k.rest, ")") /\ a.val[1] = "tuple" /\ k.val[1] = "dict")
           THEN PFail
           ELSE POk(V("partial", [func |-> f.val, args |-> a.val, keywords |-> k.val]),
                    Tail(k.rest))
      [] OTHER -> POk(ParseAtom(h), t)

\* evaluate a whole text: it must be one expression and nothing more
Evaluate(text) ==
    LET r == ParseExpr(text) IN
    IF r.ok /\ r.rest = <<>> THEN [ok |-> TRUE, val |-> r.val]
    ELSE [ok |-> FALSE, val |-> NoValue]

\* equality of values as Python compares them: sets and mappings by content,
\* anonymous functions by what they compute
RECURSIVE Norm(_)
Norm(value) ==
    CASE value[1] \in {"list", "tuple"} ->
           V(value[1], [i \in 1..Len(value[2]) |-> Norm(value[2][i])])
      [] value[1] \in {"set", "frozenset"} ->
           V(value[1], {Norm(value[2][i]) : i \in 1..Len(value[2])})
      [] value[1] = "dict" ->
           V("dict", {<<Norm(value[2][i][1]), Norm(value[2][i][2])>> : i \in 1..Len(value[2])})
      [] value[1] = "partial" ->
           V("partial", [func |-> Norm(value[2].func), args |-> Norm(value[2].args),
                         keywords |-> Norm(value[2].keywords)])
      [] value[1] = "function" /\ value[2].name = "<lambda>" ->
           V("lambda", [params |-> value[2].params, body |-> value[2].body])
      [] OTHER -> value

PyEq(a, b) == Norm(a) = Norm(b)

(***************************************************************************)
(* SpecSer: the serializer applied to each value of the universe           *)
(***************************************************************************)
SerInit ==
    /\ sval \in Values
    /\ sctx \in Contexts
    /\ sout = [state |-> "idle"]
    /\ graph = <<>>
    /\ extras = FALSE
    /\ CliIdle

\* serializer_factory(value, ctx).serialize(), and the text evaluated again
Serialize ==
    /\ sout.state = "idle"
    /\ LET res == serialize(sval, sctx) IN
       sout' = [state |-> "done",
                cls |-> serializer_factory(sval, sctx).cls,
                res |-> res,
                back |-> IF res.err = "None" THEN Evaluate(res.text)
                         ELSE [ok |-> FALSE, val |-> NoValue]]
    /\ UNCHANGED <<sval, sctx>>
    /\ UNCHANGED cliVars

SerNext == Serialize

SpecSer == SerInit /\ [][SerNext]_vars

(***************************************************************************)
(* Properties of the serializer                                            *)
(***************************************************************************)
Serialized == sout.state = "done"

IsLocal(func) == "<locals>" \in Range(func.qualname)

\* the value categories whose text is meant to evaluate back to the value
RECURSIVE Supported(_)
Supported(value) ==
    CASE value[1] \in {"int", "bool", "none", "str", "float"} -> TRUE
      [] value[1] \in {"list", "tuple", "set", "frozenset"} ->
           \A i \in 1..Len(value[2]) : Supported(value[2][i])
      [] value[1] = "dict" ->
           \A i \in 1..Len(value[2]) :
               Supported(value[2][i][1]) /\ Supported(value[2][i][2])
      [] value[1] = "partial" ->
           Supported(value[2].func) /\ Supported(value[2].args)
           /\ Supported(value[2].keywords)
      [] value[1] \in {"function", "builtin_function"} ->
           ~IsLocal(value[2]) /\ value[2].module # "None"
      [] OTHER -> FALSE

\* C8: for every supported value (nested lists, tuples, sets, frozensets,
\* mappings, scalars, non-finite floats, partials, callables) serialization
\* succeeds and its text evaluates to a value equal to the original; the
\* mapping {"b": 2, "a": 1} gives {'a': 1, 'b': 2}, the empty tuple gives ()
\* and a one-element tuple ends with a comma before the closing parenthesis.
C8_RoundTrip ==
    Serialized =>
        /\ Supported(sval) =>
              /\ sout.res.err = "None"
              /\ sout.back.ok
              /\ PyEq(sout.back.val, sval)
        /\ sval = DictB2A1 =>
              sout.res.text = <<"{", "'a'", ":", "1", ",", "'b'", ":", "2", "}">>
        /\ sval = V("tuple", <<>>) => sout.res.text = <<"(", ")">>
        /\ (sval[1] = "tuple" /\ Len(sval[2]) = 1) =>
              LastN(sout.res.text, 2) = <<",", ")">>

IsFunction(value) == value[1] = "function"

\* C9: a module-level named function serializes to module.qualified_name with
\* an import of its module; a lambda serializes to "lambda: <body>" with no
\* imports; every function defined inside another function's body fails with
\* an error, whatever its module defines at top level.
C9_FunctionBoundary ==
    (Serialized /\ IsFunction(sval)) =>
        LET func == sval[2] IN
        /\ (func.name # "<lambda>" /\ ~IsLocal(func) /\ func.module # "None"
            /\ func.self_name = "None") =>
              sout.res = Ok(<<func.module \o "." \o JoinDots(func.qualname)>>,
                            {"import " \o func.module})
        /\ func.name = "<lambda>" =>
              sout.res = Ok(<<"lambda", ":">> \o ast2src(func.body), {})
        /\ IsLocal(func) => sout.res.err # "None"

\* the conditions of the dispatch rules, numbered as the dispatch list
RuleMatches(n, value) ==
    CASE n = 1  -> isinstance(value, {"Attribute"})
      [] n = 2  -> isinstance(value, {"EntityMeta"})
      [] n = 3  -> isinstance(value, {"EntityMeta"})
      [] n = 4  -> hasattr_deconstruct(value)
      [] n = 5  -> isinstance(value, {"frozenset"})
      [] n = 6  -> isinstance(value, {"list"})
      [] n = 7  -> isinstance(value, {"set"})
      [] n = 8  -> isinstance(value, {"tuple"})
      [] n = 9  -> isinstance(value, {"dict"})
      [] n = 10 -> isinstance(value, {"Enum"})
      [] n = 11 -> isinstance(value, {"datetime"})
      [] n = 12 -> isinstance(value, {"date"})
      [] n = 13 -> isinstance(value, {"time"})
      [] n = 14 -> isinstance(value, {"timedelta"})
      [] n = 15 -> isinstance(value, {"float"})
      [] n = 16 -> isinstance(value, {"int", "bool", "NoneType"})
      [] n = 17 -> isinstance(value, {IF PY2 THEN "str" ELSE "bytes"})
      [] n = 18 -> isinstance(value, {"unicode"})
      [] n = 19 -> isinstance(value, {"Decimal"})
      [] n = 20 -> isinstance(value, {"partial"})
      [] n = 21 -> isinstance(value, {"FunctionType", "BuiltinFunctionType"})
      [] n = 22 -> isinstance(value, {"regex"})
      [] n = 23 -> isinstance(value, {"Iterable"})
      [] n = 24 -> isinstance(value, {"type"})

RuleRenderer ==
    <<"AttributeSerializer", "EntitySerializer", "EntityDeclarationSerializer",
      "DeconstructableSerializer", "FrozensetSerializer", "SequenceSerializer",
      "SetSerializer", "TupleSerializer", "DictionarySerializer", "EnumSerializer",
      "DatetimeSerializer", "DateSerializer", "TimeSerializer", "TimedeltaSerializer",
      "FloatSerializer", "BaseSimpleSerializer", "ByteTypeSerializer",
      "TextTypeSerializer", "DecimalSerializer", "FunctoolsPartialSerializer",
      "FunctionTypeSerializer", "RegexSerializer", "IterableSerializer",
      "TypeSerializer">>

\* the rules in the order of their numbers
NumberedOrder == [i \in 1..Len(RuleRenderer) |-> i]

\* the rules in the order the factory tests them: the plain-type rule right
\* after the entity rule, the iterable rule before the pattern rule, and the
\* entity-declaration rule not at all
TestedOrder ==
    <<1, 2, 24>> \o [i \in 1..18 |-> i + 3] \o <<23, 22>>

\* the renderer of the first rule of the order that the value matches
FirstMatch(order, value) ==
    LET hits == {i \in 1..Len(order) : RuleMatches(order[i], value)} IN
    IF hits = {} THEN "ValueError"
    ELSE RuleRenderer[order[CHOOSE i \in hits : \A j \in hits : i <= j]]

\* C10, as stated: the serializer chosen for a value is the renderer of the
\* lowest-numbered rule (1..24) the value matches, and a value matching no
\* rule raises an error.
C10_LowestNumberedRule ==
    Serialized => sout.cls = FirstMatch(NumberedOrder, sval)

\* C10, amended: the serializer chosen for a value is the renderer of the
\* first rule the value matches when the rules are tried in the order
\* 1, 2, 24, 4, 5, ..., 21, 23, 22, and a value matching no rule raises an
\* error.
C10_FirstTestedRule ==
    Serialized =>
        /\ sout.cls = FirstMatch(TestedOrder, sval)
        /\ sout.cls = "ValueError" => sout.res.err = "ValueError"

\* a class that exposes a deconstruct attribute has been given the plain-type
\* renderer
C10_Witness ==
    /\ Serialized
    /\ RuleMatches(4, sval) /\ RuleMatches(24, sval) /\ ~RuleMatches(2, sval)
    /\ sout.cls = "TypeSerializer"

\* how many declared entity classes a value holds, at any depth
RECURSIVE EntityCount(_)
RECURSIVE EntityCountAll(_)
EntityCountAll(values) ==
    IF values = <<>> THEN 0
    ELSE EntityCount(Head(values)) + EntityCountAll(Tail(values))

EntityCount(value) ==
    CASE value[1] = "entity" -> 1
      [] value[1] \in {"list", "tuple", "set", "frozenset", "generator"} ->
           EntityCountAll(value[2])
      [] value[1] = "dict" ->
           EntityCountAll([i \in 1..Len(value[2]) |-> value[2][i][1]])
           + EntityCountAll([i \in 1..Len(value[2]) |-> value[2][i][2]])
      [] value[1] = "partial" ->
           EntityCount(value[2].func) + EntityCount(value[2].args)
           + EntityCount(value[2].keywords)
      [] value[1] \in {"attribute", "operation", "list_deconstruct"} ->
           EntityCountAll(value[2].args)
           + EntityCountAll([i \in 1..Len(value[2].kwargs) |-> value[2].kwargs[i][2]])
      [] value[1] \in {"enum", "intenum"} -> EntityCount(value[2].value)
      [] OTHER -> 0

\* how many times a token occurs in a text
Occurrences(text, tok) == Cardinality({i \in 1..Len(text) : text[i] = tok})

\* C11: the context reaches the whole call tree: when the top-level call
\* carries has_db_var every declared entity class held by the value, at any
\* depth, is rendered db.<Name>, and when it does not every one is rendered
\* as its quoted name.
C11_ContextPassedDown ==
    (Serialized /\ sout.res.err = "None") =>
        IF "has_db_var" \in sctx
        THEN /\ Occurrences(sout.res.text, "db.Person") = EntityCount(sval)
             /\ Occurrences(sout.res.text, "'Person'") = 0
        ELSE /\ Occurrences(sout.res.text, "'Person'") = EntityCount(sval)
             /\ Occurrences(sout.res.text, "db.Person") = 0

(***************************************************************************)
(* Properties of cli                                                       *)
(***************************************************************************)
CliReturned == cli.active /\ pc = "cli_done"

\* C12: cli(db, argv) leaves the argument vector of the process unchanged: on
\* every way out of cli, a usage error of the argument parser and an error
\* propagating out of migrate included, sys.argv equals the value it had
\* before the call.
C12_ArgvUnchanged ==
    CliReturned => sys_argv = cli.sys_argv

====
